---- MODULE Spec2Model ----
(***************************************************************************)
(* Model of csnap.py: the text chunker (split_big_snippet), the line       *)
(* annotator (LineNum), the Pango markup formatter (PangoFormatter) and    *)
(* the snippet formatter (format_text).                                    *)
(*                                                                         *)
(* A Python str is a sequence of one-character strings.  A markup tag that *)
(* the program writes as a literal ("<b>", "</span>", ...) is one element  *)
(* of such a sequence.  Indices of the Python code are 0-based; the        *)
(* operators Find and Slice keep that convention.                          *)
(***************************************************************************)
EXTENDS Integers, Sequences, FiniteSets, TLC

VARIABLES
    \* split_big_snippet: arguments, locals, generator position
    text, max_lineno_split, split_at, r, i, r0, gpc, snippet,
    visited,        \* history: the (r, i, r0) the loop head has been in
    chunks,         \* list(split_big_snippet(...)) collected so far
    \* LineNum
    begin, end, startline, lineno, ret, calls,
    \* PangoFormatter.format
    styles, tokensource, pos, lastval, lasttype, outfile, ppc,
    \* format_text
    title, linenos, st, out, fpc,
    \* the two escaping phases of format_text
    src, esc, res, epc

vars == <<text, max_lineno_split, split_at, r, i, r0, gpc, snippet, visited,
          chunks, begin, end, startline, lineno, ret, calls, styles,
          tokensource, pos, lastval, lasttype, outfile, ppc, title, linenos,
          st, out, fpc, src, esc, res, epc>>

chunkVars == <<text, max_lineno_split, split_at, r, i, r0, gpc, snippet,
               visited, chunks>>
lineVars == <<begin, end, startline, lineno, ret, calls>>
pangoVars == <<styles, tokensource, pos, lastval, lasttype, outfile, ppc>>
formatVars == <<title, linenos, st, out, fpc>>
escapeVars == <<src, esc, res, epc>>

----------------------------------------------------------------------------
(* Bounds of the model *)

MaxLen == 4         \* longest enumerated input text of the chunker
MaxDocLen == 4      \* longest enumerated input text of format_text
MaxLines == 4       \* largest max_lineno_split
MaxChunks == 4      \* chunks collected before the run is cut off
MaxCalls == 3       \* calls of LineNum.next
MaxTokens == 3      \* longest token sequence
MaxFrags == 3       \* fragments an escaping input is built from

----------------------------------------------------------------------------
(* Strings *)

NL == "\n"

RECURSIVE Flatten(_)
Flatten(ss) == IF ss = <<>> THEN <<>> ELSE Head(ss) \o Flatten(Tail(ss))

Repeat(c, n) == [k \in 1..n |-> c]

\* all strings of length at most n over the alphabet A
StringsUpTo(A, n) == UNION {[1..k -> A] : k \in 0..n}

\* s[a:b] for 0 <= a, 0 <= b <= len(s)
Slice(s, a, b) == SubSeq(s, a + 1, b)

\* s[a:]
SliceFrom(s, a) == SubSeq(s, a + 1, Len(s))

MatchAt(s, sub, p) ==
    /\ p + Len(sub) <= Len(s)
    /\ \A k \in 1..Len(sub) : s[p + k] = sub[k]

\* s.find(sub, start) for a non-empty sub (a negative start counts from the
\* end of s)
Find(s, sub, start) ==
    LET from == IF start >= 0 THEN start
                ELSE IF Len(s) + start >= 0 THEN Len(s) + start ELSE 0
        hits == {p \in from..(Len(s) - Len(sub)) : MatchAt(s, sub, p)}
    IN  IF hits = {} THEN -1
        ELSE CHOOSE p \in hits : \A q \in hits : p <= q

\* s.replace(pat, rep) for a non-empty pat: leftmost, non-overlapping
RECURSIVE ReplaceFrom(_, _, _, _)
ReplaceFrom(s, pat, rep, p) ==
    IF p >= Len(s) THEN <<>>
    ELSE IF MatchAt(s, pat, p)
         THEN rep \o ReplaceFrom(s, pat, rep, p + Len(pat))
         ELSE <<s[p + 1]>> \o ReplaceFrom(s, pat, rep, p + 1)

Replace(s, pat, rep) == ReplaceFrom(s, pat, rep, 0)

\* s.split(sep) for a one-character sep
RECURSIVE SplitOn(_, _)
SplitOn(s, sep) ==
    LET p == Find(s, <<sep>>, 0)
    IN  IF p = -1 THEN <<s>>
        ELSE <<Slice(s, 0, p)>> \o SplitOn(SliceFrom(s, p + 1), sep)

Count(s, c) == Cardinality({k \in 1..Len(s) : s[k] = c})

----------------------------------------------------------------------------
(* split_big_snippet *)

\* "AAA\n\n\nBBB\n\n\nCCC"
BoundaryExample ==
    <<"A", "A", "A", NL, NL, NL, "B", "B", "B", NL, NL, NL, "C", "C", "C">>

DefaultSplitAt == <<NL, NL, NL>>

ChunkAlphabet == {"a", NL, "X"}

SplitMarkers == {<<"X">>, <<NL, NL>>, DefaultSplitAt}

\* where the search for the next newline starts
NewlineSearchFrom(rr) == rr + 1

\* a search for the boundary marker that starts at the newline just found
MarkerSearchFromHere(rr) == rr

\* where the search for the boundary marker starts
MarkerSearchFrom(rr) == rr + 1

\* the line-count test that triggers a search for the marker
LimitReached(ii, m) == ii + 1 >= m

InitChunker ==
    /\ text \in StringsUpTo(ChunkAlphabet, MaxLen) \cup {BoundaryExample}
    /\ max_lineno_split \in 1..MaxLines
    /\ split_at \in SplitMarkers
    /\ r = 0
    /\ i = 0
    /\ r0 = 0
    /\ gpc = "loop"
    /\ snippet = <<>>
    /\ visited = {}
    /\ chunks = <<>>

IdleChunker ==
    /\ text = <<>>
    /\ max_lineno_split = 1
    /\ split_at = DefaultSplitAt
    /\ r = 0
    /\ i = 0
    /\ r0 = 0
    /\ gpc = "idle"
    /\ snippet = <<>>
    /\ visited = {}
    /\ chunks = <<>>

\* One iteration of the while loop, up to and including its yield (if any).
SplitIter ==
    /\ gpc = "loop"
    /\ r # -1
    /\ LET r1 == Find(text, <<NL>>, NewlineSearchFrom(r))
           i1 == i + 1
           hit == LimitReached(i1, max_lineno_split)
           r2 == IF hit THEN Find(text, split_at, MarkerSearchFrom(r1)) ELSE r1
           cut == hit /\ r2 >= 0
           r0n == IF cut THEN r2 ELSE r0
       IN  /\ r' = r2
           /\ i' = IF hit THEN 0 ELSE i1
           /\ r0' = r0n
           /\ IF cut
              THEN /\ snippet' = Slice(text, r0, r2)
                   /\ gpc' = "yield"
              ELSE IF r2 < 0
                   THEN /\ snippet' = SliceFrom(text, r0n)
                        /\ gpc' = "yield"
                   ELSE /\ snippet' = snippet
                        /\ gpc' = "loop"
    /\ visited' = visited \cup {<<r, i, r0>>}
    /\ UNCHANGED <<text, max_lineno_split, split_at, chunks>>

\* The while condition fails: the generator is exhausted.
SplitExit ==
    /\ gpc = "loop"
    /\ r = -1
    /\ gpc' = "done"
    /\ UNCHANGED <<text, max_lineno_split, split_at, r, i, r0, snippet,
                   visited, chunks>>

\* The caller takes the yielded chunk and resumes the generator.
Collect ==
    /\ gpc = "yield"
    /\ Len(chunks) < MaxChunks
    /\ chunks' = Append(chunks, snippet)
    /\ gpc' = "loop"
    /\ UNCHANGED <<text, max_lineno_split, split_at, r, i, r0, snippet,
                   visited>>

----------------------------------------------------------------------------
(* LineNum *)

Digit(d) == <<"0", "1", "2", "3", "4", "5", "6", "7", "8", "9">>[d + 1]

\* decimal digits of n >= 0
RECURSIVE Digits(_)
Digits(n) == IF n < 10 THEN <<Digit(n)>> ELSE Digits(n \div 10) \o <<Digit(n % 10)>>

PadWidth == 5

\* "%05i" % n : zero-padded to 5 columns
PadZero(n) ==
    LET body == Digits(IF n < 0 THEN -n ELSE n)
        lead == IF n < 0 THEN <<"-">> ELSE <<>>
        fill == PadWidth - Len(lead) - Len(body)
    IN  lead \o Repeat("0", IF fill > 0 THEN fill ELSE 0) \o body

\* "% 5i" % n : a blank (or "-") for the sign, then right-aligned in 5 columns
PadBlank(n) ==
    LET signed == (IF n < 0 THEN <<"-">> ELSE <<" ">>)
                      \o Digits(IF n < 0 THEN -n ELSE n)
        fill == PadWidth - Len(signed)
    IN  Repeat(" ", IF fill > 0 THEN fill ELSE 0) \o signed

\* self.lineno = startline - 1
LineNumInit(s) == s - 1

\* the counter left as it is
LineNumStuck(n) == n

\* self.lineno += 1
LineNumBump(n) == n + 1

\* the string LineNum.next returns once the counter is n
LineNumText(b, e, n) == b \o PadBlank(n) \o <<" ">> \o e

SpanComment == <<"<span fgcolor=\"comment\">">>
SpanClose == <<"</span>">>

StartLines == {-12, -1, 0, 1, 8, 98, 9997, 99998}

InitLineNum ==
    /\ begin \in {SpanComment, <<"<", "b", ">">>}
    /\ end \in {SpanClose, <<>>}
    /\ startline \in StartLines
    /\ lineno = LineNumInit(startline)
    /\ ret = <<>>
    /\ calls = 0

IdleLineNum ==
    /\ begin = SpanComment
    /\ end = SpanClose
    /\ startline = 1
    /\ lineno = 0
    /\ ret = <<>>
    /\ calls = 0

\* LineNum.next
LineNumNext ==
    /\ calls < MaxCalls
    /\ lineno' = LineNumBump(lineno)
    /\ ret' = LineNumText(begin, end, lineno')
    /\ calls' = calls + 1
    /\ UNCHANGED <<begin, end, startline>>

----------------------------------------------------------------------------
(* PangoFormatter *)

\* ttype.parent; the parent of the root Token is None
Parent(k) ==
    CASE k = "Token.Keyword.Constant" -> "Token.Keyword"
      [] k = "Token.Keyword" -> "Token"
      [] k = "Token.Text" -> "Token"
      [] k = "Token.Name" -> "Token"
      [] OTHER -> "None"

TokenKinds == {"Token.Text", "Token.Keyword", "Token.Keyword.Constant", "Token.Name"}

TokenValues == {<<>>, <<"a">>, <<"b", NL>>}

NoStyle == [color |-> "", bold |-> FALSE, italic |-> FALSE, underline |-> FALSE]

\* what iterating a pygments style yields: token kind -> style record
StyleDefs(name) ==
    CASE name = "plain" ->
            [k \in {"Token", "Token.Text", "Token.Keyword", "Token.Name"} |-> NoStyle]
      [] name = "colour" ->
            [k \in {"Token", "Token.Text", "Token.Keyword", "Token.Name"} |->
                CASE k = "Token" -> NoStyle
                  [] k = "Token.Text" -> [NoStyle EXCEPT !.color = "f8f8f2"]
                  [] k = "Token.Keyword" ->
                        [NoStyle EXCEPT !.color = "ff79c6", !.bold = TRUE]
                  [] OTHER -> [NoStyle EXCEPT !.italic = TRUE, !.underline = TRUE]]
      [] OTHER ->   \* "rootless": no entry for the root kind
            [k \in {"Token.Text", "Token.Keyword"} |->
                IF k = "Token.Keyword" THEN [NoStyle EXCEPT !.bold = TRUE]
                ELSE NoStyle]

\* st.styles[Token.Comment]: the style definition string of comments
CommentStyle(name) == "#6272a4"

\* the (start_tag, close_tag) pair __init__ builds for one style record
StyleTags(style) ==
    LET c == IF style.color # ""
             THEN [open |-> <<"<span fgcolor=\"#", style.color, "\">">>,
                   close |-> <<"</span>">>]
             ELSE [open |-> <<>>, close |-> <<>>]
        b == IF style.bold
             THEN [open |-> c.open \o <<"<b>">>, close |-> <<"</b>">> \o c.close]
             ELSE c
        it == IF style.italic
              THEN [open |-> b.open \o <<"<i>">>, close |-> <<"</i>">> \o b.close]
              ELSE b
    IN  IF style.underline
        THEN [open |-> it.open \o <<"<u>">>, close |-> <<"</u>">> \o it.close]
        ELSE it

\* self.styles after __init__
BuildStyles(name) ==
    LET defs == StyleDefs(name)
    IN  [k \in DOMAIN defs |-> StyleTags(defs[k])]

\* while ttype not in self.styles: ttype = ttype.parent
\* ("Error": the walk reaches None, and None.parent raises)
RECURSIVE Resolve(_, _)
Resolve(k, sty) ==
    IF k \in DOMAIN sty THEN k
    ELSE IF k = "None" THEN "Error"
    ELSE Resolve(Parent(k), sty)

\* stylebegin + lastval + styleend for a non-empty lastval, else nothing
Wrap(val, kind, sty) ==
    IF val = <<>> THEN <<>> ELSE sty[kind].open \o val \o sty[kind].close

\* a test that never extends the pending run
NeverSameRun(ttype, last) == FALSE

\* the test that extends the pending run instead of writing it out
SameRun(ttype, last) == ttype = last

\* the body of the for loop of format, for one resolved token kind
FormatStep(fs, ttype, value, sty) ==
    IF SameRun(ttype, fs.lasttype)
    THEN [fs EXCEPT !.lastval = fs.lastval \o value]
    ELSE [lastval |-> value,
          lasttype |-> ttype,
          outfile |-> fs.outfile \o Wrap(fs.lastval, fs.lasttype, sty)]

\* the write after the loop
FormatFlush(fs, sty) == fs.outfile \o Wrap(fs.lastval, fs.lasttype, sty)

FormatStart == [lastval |-> <<>>, lasttype |-> "None", outfile |-> <<>>]

\* format(tokensource, outfile) as a whole, for resolvable tokens
RECURSIVE FormatFold(_, _, _)
FormatFold(fs, toks, sty) ==
    IF toks = <<>> THEN FormatFlush(fs, sty)
    ELSE FormatFold(FormatStep(fs, Resolve(Head(toks).kind, sty),
                               Head(toks).value, sty),
                    Tail(toks), sty)

PangoFormat(toks, sty) == FormatFold(FormatStart, toks, sty)

AllTokens == [kind : TokenKinds, value : TokenValues]

InitPango ==
    /\ styles \in {BuildStyles("colour"), BuildStyles("rootless")}
    /\ tokensource \in StringsUpTo(AllTokens, MaxTokens)
    /\ pos = 1
    /\ lastval = FormatStart.lastval
    /\ lasttype = FormatStart.lasttype
    /\ outfile = FormatStart.outfile
    /\ ppc = "loop"

IdlePango ==
    /\ styles = BuildStyles("plain")
    /\ tokensource = <<>>
    /\ pos = 1
    /\ lastval = <<>>
    /\ lasttype = "None"
    /\ outfile = <<>>
    /\ ppc = "idle"

\* one iteration of the for loop
PangoToken ==
    /\ ppc = "loop"
    /\ pos <= Len(tokensource)
    /\ LET ttype == Resolve(tokensource[pos].kind, styles)
       IN  /\ ttype # "Error"
           /\ LET fs == FormatStep([lastval |-> lastval, lasttype |-> lasttype,
                                    outfile |-> outfile],
                                   ttype, tokensource[pos].value, styles)
              IN  /\ lastval' = fs.lastval
                  /\ lasttype' = fs.lasttype
                  /\ outfile' = fs.outfile
    /\ pos' = pos + 1
    /\ UNCHANGED <<styles, tokensource, ppc>>

\* the parent walk leaves the hierarchy: AttributeError
PangoFail ==
    /\ ppc = "loop"
    /\ pos <= Len(tokensource)
    /\ Resolve(tokensource[pos].kind, styles) = "Error"
    /\ ppc' = "error"
    /\ UNCHANGED <<styles, tokensource, pos, lastval, lasttype, outfile>>

\* the token source is exhausted: write the pending run
PangoFinish ==
    /\ ppc = "loop"
    /\ pos > Len(tokensource)
    /\ outfile' = FormatFlush([lastval |-> lastval, lasttype |-> lasttype,
                               outfile |-> outfile], styles)
    /\ ppc' = "done"
    /\ UNCHANGED <<styles, tokensource, pos, lastval, lasttype>>

----------------------------------------------------------------------------
(* format_text *)

AmpSentinel == <<"_", "_", "A", "M", "P", "_", "_">>
LtSentinel == <<"_", "_", "L", "T", "_", "_">>
AmpEntity == <<"&", "a", "m", "p", ";">>
LtEntity == <<"&", "l", "t", ";">>

\* snippet.replace("&", "__AMP__").replace("<", "__LT__")
EscapeSentinels(s) == Replace(Replace(s, <<"&">>, AmpSentinel), <<"<">>, LtSentinel)

\* text.replace("__AMP__", "&amp;").replace("__LT__", "&lt;")
RestoreEntities(s) == Replace(Replace(s, AmpSentinel, AmpEntity), LtSentinel, LtEntity)

\* the text lexer: the whole text as one Token.Text token
Lex(s) == <<[kind |-> "Token.Text", value |-> s]>>

\* pygments.highlight(text, lx, PangoFormatter(style=st))
Highlight(s, style) == PangoFormat(Lex(s), BuildStyles(style))

\* the begin string format_text builds for its LineNum
LineNumBegin(style) == <<"<span fgcolor=\"", CommentStyle(style), "\">">>

\* [line + "\n" + lnum.next() for line in lines], joined; n is lnum.lineno
RECURSIVE NumberLines(_, _, _, _)
NumberLines(lines, b, e, n) ==
    IF lines = <<>> THEN [text |-> <<>>, lineno |-> n]
    ELSE LET n1 == LineNumBump(n)
             rest == NumberLines(Tail(lines), b, e, n1)
         IN  [text |-> Head(lines) \o <<NL>> \o LineNumText(b, e, n1) \o rest.text,
              lineno |-> rest.lineno]

\* text = lnum.next() + "".join([...] if "\n" in text else text)
AddLineNumbers(s, b, e, n) ==
    LET n1 == LineNumBump(n)
        first == LineNumText(b, e, n1)
    IN  IF Count(s, NL) > 0
        THEN LET body == NumberLines(SplitOn(s, NL), b, e, n1)
             IN  [text |-> first \o body.text, lineno |-> body.lineno]
        ELSE [text |-> first \o s, lineno |-> n1]

RuleWidth == 80

\* title_str
TitleBanner(ttl, style) ==
    <<"<span fgcolor=\"", CommentStyle(style), "\">", NL>>
        \o Repeat("=", RuleWidth) \o <<NL>>
        \o ttl \o <<NL>>
        \o Repeat("=", RuleWidth) \o <<NL>>
        \o <<"</span>", NL>>

\* a banner put before the first snippet only
WithTitleFirstOnly(s, ttl, style, k) ==
    IF ttl # <<>> /\ k = 1 THEN TitleBanner(ttl, style) \o s ELSE s

\* if title: text = title_str + text   (k: position of the snippet, from 1)
WithTitle(s, ttl, style, k) ==
    IF ttl # <<>> THEN TitleBanner(ttl, style) \o s ELSE s

\* The body of the for loop of format_text for one snippet, the k-th.
\* failed: text[0] of an empty text raises IndexError.
FormatSnippet(snip, k, ttl, numbered, style, b, e, n) ==
    LET t0 == EscapeSentinels(snip)
        lead == t0 # <<>> /\ Head(t0) = NL
        t1 == IF lead THEN Tail(t0) ELSE t0
        trail == t1 # <<>> /\ t1[Len(t1)] = NL
        t2 == IF trail THEN SubSeq(t1, 1, Len(t1) - 1) ELSE t1
        t3 == Highlight(t2, style)
        num == IF numbered THEN AddLineNumbers(t3, b, e, n)
               ELSE [text |-> t3, lineno |-> n]
        t4 == num.text
    IN  IF t4 = <<>>
        THEN [failed |-> TRUE, text |-> <<>>, lineno |-> num.lineno]
        ELSE LET bg == IF lead /\ ~(Head(t4) = NL) THEN <<NL>> ELSE <<>>
                 en == IF trail /\ ~(t4[Len(t4)] = NL) THEN <<NL>> ELSE <<>>
                 t5 == RestoreEntities(t4)
             IN  [failed |-> FALSE,
                  text |-> WithTitle(bg \o t5 \o en, ttl, style, k),
                  lineno |-> num.lineno]

DocAlphabet == {"a", NL, "&"}

DocMarkers == {<<NL, NL>>, <<"&">>}

\* the title, linenos, st and startline arguments tried
DocOptions ==
    {[title |-> <<"T">>, linenos |-> TRUE, st |-> "plain", startline |-> 1],
     [title |-> <<>>, linenos |-> TRUE, st |-> "plain", startline |-> 98],
     [title |-> <<>>, linenos |-> TRUE, st |-> "colour", startline |-> 1],
     [title |-> <<"T">>, linenos |-> FALSE, st |-> "colour", startline |-> 1],
     [title |-> <<>>, linenos |-> FALSE, st |-> "plain", startline |-> 1]}

InitFormatText ==
    /\ text \in StringsUpTo(DocAlphabet, MaxDocLen)
    /\ max_lineno_split \in 1..MaxLines
    /\ split_at \in DocMarkers
    /\ r = 0
    /\ i = 0
    /\ r0 = 0
    /\ gpc = "loop"
    /\ snippet = <<>>
    /\ visited = {}
    /\ chunks = <<>>
    /\ \E o \in DocOptions :
           /\ title = o.title
           /\ linenos = o.linenos
           /\ st = o.st
           /\ startline = o.startline
    /\ begin = LineNumBegin(st)
    /\ end = SpanClose
    /\ lineno = LineNumInit(startline)
    /\ ret = <<>>
    /\ calls = 0
    /\ out = <<>>
    /\ fpc = "run"

IdleFormatText ==
    /\ title = <<>>
    /\ linenos = FALSE
    /\ st = "plain"
    /\ out = <<>>
    /\ fpc = "idle"

\* format_text takes the next snippet, formats it and yields the markup
\* (chunks keeps the snippets taken so far)
FormatYield ==
    /\ fpc = "run"
    /\ gpc = "yield"
    /\ Len(out) < MaxChunks
    /\ LET f == FormatSnippet(snippet, Len(out) + 1, title, linenos, st,
                              begin, end, lineno)
       IN  /\ ~f.failed
           /\ out' = Append(out, f.text)
           /\ lineno' = f.lineno
    /\ chunks' = Append(chunks, snippet)
    /\ gpc' = "loop"
    /\ UNCHANGED <<text, max_lineno_split, split_at, r, i, r0, snippet, visited,
                   begin, end, startline, ret, calls, title, linenos, st, fpc>>

\* the snippet's markup is empty: text[0] raises and format_text is abandoned
FormatRaise ==
    /\ fpc = "run"
    /\ gpc = "yield"
    /\ Len(out) < MaxChunks
    /\ LET f == FormatSnippet(snippet, Len(out) + 1, title, linenos, st,
                              begin, end, lineno)
       IN  /\ f.failed
           /\ lineno' = f.lineno
    /\ fpc' = "error"
    /\ UNCHANGED <<text, max_lineno_split, split_at, r, i, r0, gpc, snippet,
                   visited, chunks, begin, end, startline, ret, calls, title,
                   linenos, st, out>>

----------------------------------------------------------------------------
(* The two escaping phases of format_text on their own *)

Fragments == {<<"a">>, <<"&">>, <<"<">>, <<"_">>, <<"_", "_">>,
              <<"A", "M", "P">>, <<"L", "T">>}

InitEscape ==
    /\ src \in {Flatten(fs) : fs \in StringsUpTo(Fragments, MaxFrags)}
    /\ esc = <<>>
    /\ res = <<>>
    /\ epc = "source"

IdleEscape ==
    /\ src = <<>>
    /\ esc = <<>>
    /\ res = <<>>
    /\ epc = "idle"

\* line 284
EscapePhase ==
    /\ epc = "source"
    /\ esc' = EscapeSentinels(src)
    /\ epc' = "escaped"
    /\ UNCHANGED <<src, res>>

\* lines 296 and 311, with a highlighter that adds no markup
RestorePhase ==
    /\ epc = "escaped"
    /\ res' = RestoreEntities(Highlight(esc, "plain"))
    /\ epc' = "done"
    /\ UNCHANGED <<src, esc>>

----------------------------------------------------------------------------
(* Specifications *)

\* list(split_big_snippet(text, max_lineno_split, split_at))
ChunkerNext ==
    \/ SplitIter /\ UNCHANGED <<lineVars, pangoVars, formatVars, escapeVars>>
    \/ SplitExit /\ UNCHANGED <<lineVars, pangoVars, formatVars, escapeVars>>
    \/ Collect /\ UNCHANGED <<lineVars, pangoVars, formatVars, escapeVars>>

ChunkerStart ==
    InitChunker /\ IdleLineNum /\ IdlePango /\ IdleFormatText /\ IdleEscape

SpecChunker ==
    /\ ChunkerStart
    /\ [][ChunkerNext]_vars

\* repeated calls of LineNum.next
LineNumStep == LineNumNext /\ UNCHANGED <<chunkVars, pangoVars, formatVars, escapeVars>>

LineNumStart ==
    IdleChunker /\ InitLineNum /\ IdlePango /\ IdleFormatText /\ IdleEscape

SpecLineNum ==
    /\ LineNumStart
    /\ [][LineNumStep]_vars

\* PangoFormatter.format over one token source
PangoNext ==
    \/ PangoToken /\ UNCHANGED <<chunkVars, lineVars, formatVars, escapeVars>>
    \/ PangoFail /\ UNCHANGED <<chunkVars, lineVars, formatVars, escapeVars>>
    \/ PangoFinish /\ UNCHANGED <<chunkVars, lineVars, formatVars, escapeVars>>

PangoStart ==
    IdleChunker /\ IdleLineNum /\ InitPango /\ IdleFormatText /\ IdleEscape

SpecPango ==
    /\ PangoStart
    /\ [][PangoNext]_vars

\* list(format_text(text, lx, st, title, linenos, startline, ...))
FormatTextNext ==
    \/ SplitIter /\ UNCHANGED <<lineVars, pangoVars, formatVars, escapeVars>>
    \/ SplitExit /\ UNCHANGED <<lineVars, pangoVars, formatVars, escapeVars>>
    \/ FormatYield /\ UNCHANGED <<pangoVars, escapeVars>>
    \/ FormatRaise /\ UNCHANGED <<pangoVars, escapeVars>>

FormatTextStart ==
    InitFormatText /\ IdlePango /\ IdleEscape

SpecFormatText ==
    /\ FormatTextStart
    /\ [][FormatTextNext]_vars

\* escaping, highlighting without markup, restoring
EscapeNext ==
    \/ EscapePhase /\ UNCHANGED <<chunkVars, lineVars, pangoVars, formatVars>>
    \/ RestorePhase /\ UNCHANGED <<chunkVars, lineVars, pangoVars, formatVars>>

EscapeStart ==
    IdleChunker /\ IdleLineNum /\ IdlePango /\ IdleFormatText /\ InitEscape

SpecEscape ==
    /\ EscapeStart
    /\ [][EscapeNext]_vars

----------------------------------------------------------------------------
(* Properties of split_big_snippet, under SpecChunker *)

\* C1: when the chunker has finished, the chunks it yielded, concatenated in
\* order, are exactly the input text.
LosslessChunking == gpc = "done" => Flatten(chunks) = text

\* C2: the scan loop never comes back to a scan state (r, i, r0) it has
\* already been in, so it cannot run forever.
NoScanStateRevisited == (gpc = "loop" /\ r # -1) => <<r, i, r0>> \notin visited

IsBoundaryRun ==
    /\ text = BoundaryExample
    /\ max_lineno_split = 1
    /\ split_at = DefaultSplitAt
    /\ gpc = "done"

\* C7 as stated: "AAA\n\n\nBBB\n\n\nCCC" with maxLines 1 and the marker
\* "\n\n\n" is split into "AAA", "\n\nBBB", "\n\nCCC".
BoundaryExampleThreeChunks ==
    IsBoundaryRun =>
        chunks = << <<"A", "A", "A">>,
                    <<NL, NL, "B", "B", "B">>,
                    <<NL, NL, "C", "C", "C">> >>

\* C7 as amended: the same input is split into the two chunks
\* "AAA\n\n\nBBB" and "\n\n\nCCC".
BoundaryExampleTwoChunks ==
    IsBoundaryRun =>
        chunks = << <<"A", "A", "A", NL, NL, NL, "B", "B", "B">>,
                    <<NL, NL, NL, "C", "C", "C">> >>

BoundaryExampleDone == IsBoundaryRun /\ Len(chunks) = 2

\* C9: a text of at most max_lineno_split lines comes out as one chunk, the
\* whole text, whether or not the marker occurs in it.
SplitOnlyWhenExceeded ==
    (gpc = "done" /\ Count(text, NL) <= max_lineno_split - 1) => chunks = <<text>>

----------------------------------------------------------------------------
(* Properties of LineNum, under SpecLineNum *)

IsDigit(c) == \E d \in 0..9 : Digit(d) = c

DigitValue(c) == CHOOSE d \in 0..9 : Digit(d) = c

\* the number a string of digits denotes
RECURSIVE DigitsValue(_)
DigitsValue(w) ==
    IF w = <<>> THEN 0
    ELSE 10 * DigitsValue(SubSeq(w, 1, Len(w) - 1)) + DigitValue(w[Len(w)])

\* w is blanks, then a sign position (" " or "-"), then digits without
\* leading zeros
IsNumberField(w) ==
    \E k \in 1..(Len(w) - 1) :
        /\ \A j \in 1..(k - 1) : w[j] = " "
        /\ w[k] \in {" ", "-"}
        /\ \A j \in (k + 1)..Len(w) : IsDigit(w[j])
        /\ (w[k + 1] = "0" => k + 1 = Len(w))

FieldValue(w) ==
    LET k == CHOOSE j \in 1..(Len(w) - 1) :
                 /\ w[j] \in {" ", "-"}
                 /\ IsDigit(w[j + 1])
        v == DigitsValue(SubSeq(w, k + 1, Len(w)))
    IN  IF w[k] = "-" THEN -v ELSE v

\* w shows n right-aligned in PadWidth columns, wider only if n needs it
ShowsNumber(w, n) ==
    /\ IsNumberField(w)
    /\ FieldValue(w) = n
    /\ Len(w) >= PadWidth
    /\ (Len(w) > PadWidth => w[1] # " " \/ w[2] # " ")

\* what ret has between the begin string and the blank before the end string
ReturnedField == SubSeq(ret, Len(begin) + 1, Len(ret) - Len(end) - 1)

\* C8 as stated: the k-th call returns b + the number s + k - 1 zero-padded
\* to 5 digits + " " + e, and adds one to the counter.
LineNumZeroPadded ==
    calls >= 1 =>
        /\ ret = begin \o PadZero(startline + calls - 1) \o <<" ">> \o end
        /\ lineno = startline + calls - 1

\* C8 as amended: the k-th call returns b + the number s + k - 1 in decimal,
\* right-aligned with blanks (never zeros) in at least 5 columns, a blank or
\* "-" before its digits, + " " + e, and adds one to the counter.
LineNumBlankPadded ==
    calls >= 1 =>
        /\ Len(ret) >= Len(begin) + Len(end) + 1
        /\ ret = begin \o ReturnedField \o <<" ">> \o end
        /\ ShowsNumber(ReturnedField, startline + calls - 1)
        /\ lineno = startline + calls - 1

LineNumCalledTwice == calls = 2 /\ startline = 9997 /\ begin = SpanComment

----------------------------------------------------------------------------
(* Properties of PangoFormatter.format, under SpecPango *)

ResolvedKind(j) == Resolve(tokensource[j].kind, styles)

\* the last token of the maximal run that token j starts
RunEnd(j) ==
    CHOOSE e \in j..Len(tokensource) :
        /\ \A k \in j..e : ResolvedKind(k) = ResolvedKind(j)
        /\ (e = Len(tokensource) \/ ResolvedKind(e + 1) # ResolvedKind(j))

RunText(j) == Flatten([k \in 1..(RunEnd(j) - j + 1) |-> tokensource[j + k - 1].value])

RunMarkup(j) ==
    IF RunText(j) = <<>> THEN <<>>
    ELSE styles[ResolvedKind(j)].open \o RunText(j) \o styles[ResolvedKind(j)].close

RECURSIVE RunsFrom(_)
RunsFrom(j) ==
    IF j > Len(tokensource) THEN <<>> ELSE RunMarkup(j) \o RunsFrom(RunEnd(j) + 1)

\* the token source with tokens j and j + 1 made one token
Merged(j) ==
    [k \in 1..(Len(tokensource) - 1) |->
        IF k < j THEN tokensource[k]
        ELSE IF k = j
             THEN [kind |-> tokensource[j].kind,
                   value |-> tokensource[j].value \o tokensource[j + 1].value]
             ELSE tokensource[k + 1]]

\* C5: once format has finished, outfile holds open(k) + text + close(k) for
\* each maximal run of tokens of the same resolved kind, in order, and nothing
\* for a run without text; making two adjacent tokens of one kind a single
\* token would have given the same output.
RunsCoalesced ==
    ppc = "done" =>
        /\ outfile = RunsFrom(1)
        /\ \A j \in 1..(Len(tokensource) - 1) :
               tokensource[j].kind = tokensource[j + 1].kind =>
                   PangoFormat(Merged(j), styles) = outfile

CoalescedRunWritten ==
    /\ ppc = "done"
    /\ Len(tokensource) = 3
    /\ \A j \in 1..3 : tokensource[j].value # <<>>
    /\ tokensource[1].kind = "Token.Keyword.Constant"
    /\ tokensource[2].kind = "Token.Keyword"
    /\ tokensource[3].kind = "Token.Text"
    /\ styles = BuildStyles("colour")

----------------------------------------------------------------------------
(* Properties of format_text, under SpecFormatText *)

StartsWith(s, pre) == MatchAt(s, pre, 0)

\* C3 as stated: with a title, once a run of two or more chunks has finished,
\* the first markup string starts with the title banner and no later one
\* contains it.
TitleOnFirstChunkOnly ==
    (title # <<>> /\ Len(out) >= 2 /\ gpc = "done") =>
        /\ StartsWith(out[1], TitleBanner(title, st))
        /\ \A k \in 2..Len(out) : Find(out[k], TitleBanner(title, st), 0) = -1

\* C3 as amended: with a title, every markup string, the first and the later
\* ones alike, starts with the title banner.
TitleOnEveryChunk ==
    title # <<>> => \A k \in 1..Len(out) : StartsWith(out[k], TitleBanner(title, st))

TitledTwoChunks == title # <<>> /\ Len(out) >= 2 /\ gpc = "done"

\* a line-number prefix starts at (0-based) p of s
IsPrefixAt(s, p) ==
    /\ MatchAt(s, begin, p)
    /\ LET z == Find(s, end, p + Len(begin))
       IN  /\ z > p + Len(begin)
           /\ s[z] = " "
           /\ IsNumberField(Slice(s, p + Len(begin), z - 1))

PrefixNumber(s, p) ==
    FieldValue(Slice(s, p + Len(begin), Find(s, end, p + Len(begin)) - 1))

\* the line numbers written in s from (0-based) p on, in the order they appear
RECURSIVE NumbersFrom(_, _)
NumbersFrom(s, p) ==
    LET q == Find(s, begin, p)
    IN  IF q = -1 THEN <<>>
        ELSE (IF IsPrefixAt(s, q) THEN <<PrefixNumber(s, q)>> ELSE <<>>)
                 \o NumbersFrom(s, q + 1)

NumbersIn(s) == NumbersFrom(s, 0)

NumbersOut == Flatten([k \in 1..Len(out) |-> NumbersIn(out[k])])

\* C4: with line numbering, the numbers written over the whole run, in output
\* order, are startline, startline + 1, ... without a gap or a restart at a
\* chunk boundary, and the counter stands at the last one written.
NumbersConsecutive ==
    linenos =>
        LET nums == NumbersOut
        IN  /\ nums = [j \in 1..Len(nums) |-> startline + j - 1]
            /\ lineno = startline - 1 + Len(nums)

NumberedTwoChunks ==
    /\ linenos
    /\ gpc = "done"
    /\ Len(out) = 2
    /\ NumbersIn(out[1]) = <<startline>>
    /\ Len(NumbersIn(out[2])) >= 2

\* the markup the numbering rule gives a snippet whose first prefix shows n:
\* a prefix, then the text with a prefix after each of its newlines
RECURSIVE PrefixedLines(_, _)
PrefixedLines(lines, n) ==
    IF Len(lines) = 1 THEN LineNumText(begin, end, n) \o lines[1]
    ELSE LineNumText(begin, end, n) \o lines[1] \o <<NL>>
            \o PrefixedLines(Tail(lines), n + 1)

\* the number the first prefix of the k-th snippet shows under that rule
RECURSIVE FirstNumber(_)
FirstNumber(k) ==
    IF k = 1 THEN startline
    ELSE FirstNumber(k - 1) + 1 + Count(chunks[k - 1], NL)

\* C10: with line numbering and a highlighter that adds nothing, the markup
\* of each snippet is its (entity-escaped) text with one prefix at its start
\* and one after each newline, and nothing else; the numbers run on from one
\* snippet to the next.
PrefixPerLineOnly ==
    (linenos /\ st = "plain" /\ title = <<>>) =>
        \A k \in 1..Len(out) :
            out[k] = PrefixedLines(SplitOn(RestoreEntities(EscapeSentinels(chunks[k])), NL),
                                   FirstNumber(k))

----------------------------------------------------------------------------
(* Properties of the escaping, under SpecEscape *)

\* each "&" as "&amp;", each "<" as "&lt;", every other character as it is
EncodeEntities(s) ==
    Flatten([k \in 1..Len(s) |->
                IF s[k] = "&" THEN AmpEntity
                ELSE IF s[k] = "<" THEN LtEntity
                ELSE <<s[k]>>])

DecodeEntities(s) == Replace(Replace(s, LtEntity, <<"<">>), AmpEntity, <<"&">>)

\* C6: escaping to sentinels, highlighting without markup and restoring the
\* entities gives the source with "&" as "&amp;" and "<" as "&lt;" and nothing
\* else changed, so that decoding the entities gives back the source.
EscapingLossless ==
    epc = "done" => (res = EncodeEntities(src) /\ DecodeEntities(res) = src)

====
